---- MODULE Spec2Model ----
(***************************************************************************)
(* s3-spa-upload: one run of s3SpaUpload (walk, bounded upload, optional   *)
(* reconciliation, summary) as a state machine.                            *)
(*                                                                         *)
(* Strings that the code inspects (paths, keys, prefixes, endpoints) are   *)
(* sequences of one-character strings; opaque header values are strings.   *)
(*                                                                         *)
(* The program runs on one JavaScript thread.  A step of the main          *)
(* coroutine (pc in MainRunnable) is never interleaved with the arrival of *)
(* an I/O result: I/O results are delivered only when the main coroutine   *)
(* is blocked in an await, and promise rejections without a handler are    *)
(* processed when the microtask queue has run empty.                       *)
(***************************************************************************)
EXTENDS Integers, Sequences, FiniteSets, TLC

\* ------------------------------------------------------------------ bounds
MaxN == 2
MaxFiles == 2
MaxPages == 2
MaxPageLen == 2
\* failed I/O results (puts, list requests, deletes) per run
MaxFaults == 2

\* --------------------------------------------------------------- constants
\* options.concurrency ??= 100
DefaultConcurrency == 100
\* stands for an options object without the concurrency field
UnsetConcurrency == -1
\* caps below 1 that a caller of s3SpaUpload can pass
InvalidCaps == {0}

\* undefined, as a value of the string-valued expressions of the code
Undefined == <<"undefined">>
\* an absent header value (CacheControl, ContentType undefined)
Absent == "<absent>"
BucketName == "bucket"

CACHE_FOREVER == "public,max-age=31536000,immutable"
CACHE_ONE_DAY_SWR_ONE_MONTH == "public,max-age=86400,stale-while-revalidate=2592000"
CACHE_ONE_MIN_SWR_ONE_MONTH == "public,max-age=60,stale-while-revalidate=2592000"

\* globs of the default mapping, in insertion order
DEFAULT_CACHE_CONTROL_MAPPING ==
  << [glob |-> <<"i", "n", "d", "e", "x", ".", "h", "t", "m", "l">>,
      cacheControl |-> CACHE_ONE_MIN_SWR_ONE_MONTH],
     [glob |-> <<"*", ".", "c", "s", "s">>, cacheControl |-> CACHE_FOREVER],
     [glob |-> <<"*", ".", "j", "s">>, cacheControl |-> CACHE_FOREVER],
     [glob |-> <<"*", ".", "p", "n", "g">>, cacheControl |-> CACHE_ONE_DAY_SWR_ONE_MONTH],
     [glob |-> <<"*", ".", "i", "c", "o">>, cacheControl |-> CACHE_ONE_DAY_SWR_ONE_MONTH],
     [glob |-> <<"*", ".", "t", "x", "t">>, cacheControl |-> CACHE_ONE_DAY_SWR_ONE_MONTH] >>

\* ------------------------------------------------------------ string tools
StartsWith(s, p) == Len(p) <= Len(s) /\ SubSeq(s, 1, Len(p)) = p

EndsWith(s, p) == Len(p) <= Len(s) /\ SubSeq(s, Len(s) - Len(p) + 1, Len(s)) = p

Max(S) == CHOOSE x \in S : \A y \in S : y <= x

Range(f) == {f[x] : x \in DOMAIN f}

\* position of the last occurrence of character c in s, 0 when there is none
LastIndexOf(s, c) ==
  LET P == {k \in 1..Len(s) : s[k] = c} IN IF P = {} THEN 0 ELSE Max(P)

\* path.join of a directory and one entry name
Join(directoryPath, entry) == directoryPath \o <<"/">> \o entry

\* final path segment
BaseName(path) == SubSeq(path, LastIndexOf(path, "/") + 1, Len(path))

\* path.extname: from the last dot of the final segment; a leading dot of the
\* segment does not start an extension
ExtName(path) ==
  LET b == BaseName(path)
      d == LastIndexOf(b, ".")
  IN IF d <= 1 THEN <<>> ELSE SubSeq(b, d, Len(b))

\* ------------------------------------------------- cache-control, mime type
RECURSIVE GlobMatch(_, _)
\* glob match of one string: "*" matches any run of characters other than "/"
GlobMatch(s, p) ==
  IF p = <<>> THEN s = <<>>
  ELSE IF Head(p) = "*"
       THEN GlobMatch(s, Tail(p))
            \/ (s # <<>> /\ Head(s) # "/" /\ GlobMatch(Tail(s), p))
       ELSE s # <<>> /\ Head(s) = Head(p) /\ GlobMatch(Tail(s), Tail(p))

\* minimatch(filepath, glob, {matchBase: true}): a glob without a separator is
\* matched against the final segment; a "*" at the start of the glob does not
\* match a name that starts with a dot
Minimatch(filepath, glob) ==
  LET target == IF LastIndexOf(glob, "/") = 0 THEN BaseName(filepath) ELSE filepath
  IN /\ GlobMatch(target, glob)
     /\ ~(glob # <<>> /\ Head(glob) = "*" /\ target # <<>> /\ Head(target) = ".")

Digits == {"0", "1", "2", "3", "4", "5", "6", "7", "8", "9"}

DigitValue(c) ==
  CASE c = "0" -> 0 [] c = "1" -> 1 [] c = "2" -> 2 [] c = "3" -> 3 [] c = "4" -> 4
    [] c = "5" -> 5 [] c = "6" -> 6 [] c = "7" -> 7 [] c = "8" -> 8 [] c = "9" -> 9

RECURSIVE NumValue(_)
NumValue(s) ==
  IF s = <<>> THEN 0
  ELSE 10 * NumValue(SubSeq(s, 1, Len(s) - 1)) + DigitValue(s[Len(s)])

\* is the property key an integer index (canonical decimal, no leading zero)?
IsArrayIndex(key) ==
  /\ key # <<>>
  /\ \A i \in 1..Len(key) : key[i] \in Digits
  /\ (Len(key) = 1 \/ key[1] # "0")

RECURSIVE AscendingIndexEntries(_)
AscendingIndexEntries(E) ==
  IF E = {} THEN <<>>
  ELSE LET m == CHOOSE e \in E : \A f \in E : NumValue(e.glob) <= NumValue(f.glob)
       IN <<m>> \o AscendingIndexEntries(E \ {m})

IsIndexEntry(e) == IsArrayIndex(e.glob)
IsStringEntry(e) == ~IsArrayIndex(e.glob)

\* Object.entries of a mapping object, given as its properties in insertion
\* order: the integer-index keys come first, in ascending numeric order, the
\* other keys follow in insertion order
ObjectEntries(mapping) ==
  AscendingIndexEntries(Range(SelectSeq(mapping, IsIndexEntry)))
    \o SelectSeq(mapping, IsStringEntry)

\* the loop of getCacheControl over the entries
RECURSIVE FirstMatchingEntry(_, _)
FirstMatchingEntry(filepath, entries) ==
  IF entries = <<>> THEN Absent
  ELSE IF Minimatch(filepath, Head(entries).glob)
       THEN Head(entries).cacheControl
       ELSE FirstMatchingEntry(filepath, Tail(entries))

getCacheControl(filepath, cacheControlMapping) ==
  FirstMatchingEntry(filepath, ObjectEntries(cacheControlMapping))

\* contentType(extname(filePath)) || undefined, for the extensions of the model
ContentType(filePath) ==
  LET e == ExtName(filePath) IN
  IF e = <<".", "h", "t", "m", "l">> THEN "text/html; charset=utf-8"
  ELSE IF e = <<".", "j", "s">> THEN "application/javascript; charset=utf-8"
  ELSE IF e = <<".", "c", "s", "s">> THEN "text/css; charset=utf-8"
  ELSE IF e = <<".", "t", "x", "t">> THEN "text/plain; charset=utf-8"
  ELSE IF e = <<".", "p", "n", "g">> THEN "image/png"
  ELSE Absent

\* ------------------------------------------------------- directory walker
RootDir == <<"/", "r">>

F(n) == [kind |-> "file", name |-> n, entries |-> <<>>]
D(n, es) == [kind |-> "dir", name |-> n, entries |-> es]

NameIndexHtml == <<"i", "n", "d", "e", "x", ".", "h", "t", "m", "l">>
NameAJs == <<"a", ".", "j", "s">>
NameBTxt == <<"b", ".", "t", "x", "t">>
NameC == <<"c">>
NameS == <<"s">>

\* the listing of a directory that readdirSync cannot read (missing, no access)
ReadError == << [kind |-> "error", name |-> <<>>, entries |-> <<>>] >>

\* contents of the root directory: the trees the walk is run on
ReadableTrees ==
  { << >>,
    << F(NameAJs) >>,
    << F(NameAJs), D(NameS, << F(NameBTxt) >>) >>,
    << F(NameIndexHtml), F(NameAJs), D(NameS, << F(NameBTxt) >>) >>,
    << F(NameIndexHtml), F(NameAJs), D(NameS, << F(NameBTxt), F(NameC) >>) >> }

\* a root that does not exist, and a subdirectory that cannot be read
UnreadableTrees ==
  { ReadError,
    << F(NameAJs), D(NameS, ReadError) >> }

AllTrees == ReadableTrees \cup UnreadableTrees

\* a walk in which no call of readdirSync throws
WalkThrows_Never(entries) == FALSE

\* readdirSync throws somewhere in the walk: the exception leaves buildFileList
RECURSIVE WalkThrows(_)
WalkThrows(entries) ==
  \E i \in DOMAIN entries :
    \/ entries[i].kind = "error"
    \/ entries[i].kind = "dir" /\ WalkThrows(entries[i].entries)

RECURSIVE buildFileList(_, _, _)
buildFileList(directoryPath, entries, filePaths) ==
  IF entries = <<>> THEN filePaths
  ELSE LET entry == Head(entries)
           filePath == Join(directoryPath, entry.name)
           acc == IF entry.kind = "file" THEN Append(filePaths, filePath)
                  ELSE IF entry.kind = "dir"
                       THEN buildFileList(filePath, entry.entries, filePaths)
                       ELSE filePaths
       IN buildFileList(directoryPath, Tail(entries), acc)

Trees == {t \in AllTrees : Len(buildFileList(RootDir, t, <<>>)) <= MaxFiles}

\* ------------------------------------------------------------ key, prefix
\* normalization that appends a separator to every non-empty prefix
NormalizePrefix_AlwaysAppends(prefix) ==
  IF prefix = Undefined \/ prefix = <<>> THEN <<>> ELSE prefix \o <<"/">>

\* options.prefix as normalized by s3SpaUpload
NormalizePrefix(prefix) ==
  IF prefix = Undefined \/ prefix = <<>> THEN <<>>
  ELSE IF EndsWith(prefix, <<"/">>) THEN prefix ELSE prefix \o <<"/">>

\* the atoms of a regular expression source: a character with its quantifier
\* ("+" or "?", or none); "." is the only other metacharacter of the model
RECURSIVE RegexAtoms(_)
RegexAtoms(p) ==
  IF p = <<>> THEN <<>>
  ELSE IF Len(p) >= 2 /\ p[2] \in {"+", "?"}
       THEN << [ch |-> p[1], quant |-> p[2]] >> \o RegexAtoms(SubSeq(p, 3, Len(p)))
       ELSE << [ch |-> p[1], quant |-> ""] >> \o RegexAtoms(Tail(p))

AtomMatches(ch, c) == ch = "." \/ ch = c

\* the ends of the matches of the atoms on s after i characters, in the order
\* in which the backtracking matcher finds them (quantifiers are greedy)
RECURSIVE RegexEnds(_, _, _)
RegexEnds(atoms, s, i) ==
  IF atoms = <<>> THEN <<i>>
  ELSE LET a == Head(atoms)
           ok == i < Len(s) /\ AtomMatches(a.ch, s[i + 1])
       IN IF a.quant = "?"
          THEN (IF ok THEN RegexEnds(Tail(atoms), s, i + 1) ELSE <<>>)
                 \o RegexEnds(Tail(atoms), s, i)
          ELSE IF ~ok THEN <<>>
          ELSE IF a.quant = "+"
          THEN RegexEnds(atoms, s, i + 1) \o RegexEnds(Tail(atoms), s, i + 1)
          ELSE RegexEnds(Tail(atoms), s, i + 1)

\* filePath.replace(new RegExp(String.raw`^${dir}/?`), ""): dir is the source of
\* a regular expression; the first match at the start of filePath is removed
StripDir(filePath, dir) ==
  LET ends == RegexEnds(RegexAtoms(dir \o <<"/", "?">>), filePath, 0)
  IN IF ends = <<>> THEN filePath
     ELSE SubSeq(filePath, Head(ends) + 1, Len(filePath))

\* the params that uploadToS3 builds
UploadParams(key, filePath, prefix, cacheControlMapping) ==
  [Bucket |-> BucketName,
   Key |-> prefix \o key,
   Body |-> filePath,
   CacheControl |-> getCacheControl(filePath, cacheControlMapping),
   ContentType |-> ContentType(filePath)]

\* the params of the PutObjectCommand of one file, with the default mapping
PutParams(filePath, dir, prefix) ==
  UploadParams(StripDir(filePath, dir), filePath, prefix, DEFAULT_CACHE_CONTROL_MAPPING)

PrefixOptions == {Undefined, <<"m">>}

\* -------------------------------------------------------- redirect region
EpDash == <<"b", ".", "s", "3", "-", "e", "u", "-", "w", "e", "s", "t", "-", "1", ".", "a", "m", "a", "z", "o", "n", "a", "w", "s", ".", "c", "o", "m">>
EpDot == <<"b", ".", "s", "3", ".", "e", "u", "-", "w", "e", "s", "t", "-", "1", ".", "a", "m", "a", "z", "o", "n", "a", "w", "s", ".", "c", "o", "m">>
EpLegacy == <<"b", ".", "s", "3", ".", "a", "m", "a", "z", "o", "n", "a", "w", "s", ".", "c", "o", "m">>
EuWest1 == <<"e", "u", "-", "w", "e", "s", "t", "-", "1">>
UsEast1 == <<"u", "s", "-", "e", "a", "s", "t", "-", "1">>

Endpoints == {EpDash, EpDot, EpLegacy}
NoEndpoint == <<>>

\* the region of the client that s3SpaUpload creates (taken from the environment)
EnvRegion == <<"e", "n", "v">>

\* candidates (a, sep) of the match of /.+\.s3[-\.]?(.*)\.amazonaws.com$/ :
\* a = length matched by ".+", sep = length matched by "[-\.]?"; the unescaped
\* dot before "com" matches any character
RegexCandidates(ep) ==
  LET L == Len(ep) IN
  {c \in (1..L) \X {0, 1} :
     LET a == c[1]
         sep == c[2]
     IN /\ a + 3 + sep + 14 <= L
        /\ SubSeq(ep, a + 1, a + 3) = <<".", "s", "3">>
        /\ (sep = 1 => ep[a + 4] \in {"-", "."})
        /\ SubSeq(ep, L - 13, L - 4) = <<".", "a", "m", "a", "z", "o", "n", "a", "w", "s">>
        /\ SubSeq(ep, L - 2, L) = <<"c", "o", "m">>}

\* the match of the pattern without the optional separator "[-\.]?"
RedirectRegion_NoSeparator(ep) ==
  LET C == {c \in RegexCandidates(ep) : c[2] = 0} IN
  IF C = {} THEN <<"undefined">>
  ELSE LET a == Max({c[1] : c \in C})
       IN SubSeq(ep, a + 3 + 1, Len(ep) - 14)

\* err.Endpoint.match(...)?.[1] : the backtracking matcher tries the longest
\* ".+" first, then a non-empty "[-\.]?"; group 1 is what lies between
RedirectRegion(ep) ==
  LET C == RegexCandidates(ep) IN
  IF C = {} THEN Undefined
  ELSE LET a == Max({c[1] : c \in C})
           sep == Max({c[2] : c \in {d \in C : d[1] = a}})
       IN SubSeq(ep, a + 3 + sep + 1, Len(ep) - 14)

\* region: redirectRegion ?? "us-east-1"
NewClientRegion(ep) ==
  LET redirectRegion == RedirectRegion(ep)
  IN IF redirectRegion = Undefined THEN UsEast1 ELSE redirectRegion

\* new S3Client({region}) : the SDK's region resolution refuses an empty region
\* ("Region is missing"); the SDK is not part of the repository, so both a
\* throwing and a non-throwing constructor are admitted for the empty region
ClientCtorThrows(region) == IF region = <<>> THEN {TRUE, FALSE} ELSE {FALSE}

\* does the catch handler of the put retry?  (attached to the first send only)
ShouldRetry(attempt, code) == attempt = 1 /\ code = "PermanentRedirect"

\* the catch handler builds a new S3Client and assigns it to _s3client each
\* time it retries: the number of reconfigurations is the number of jobs that
\* made a second attempt (js is a function from job number to job record)
Reconfigurations(js) == Cardinality({k \in DOMAIN js : Len(js[k].att) >= 2})


\* ------------------------------------------------------------------ fastq
\* a fastq queue: number of running tasks, the tasks waiting, the cap
NewQueue(concurrency) == [running |-> 0, waiting |-> <<>>, concurrency |-> concurrency]

\* fastq.promise(worker, concurrency): recent versions of fastq throw when the
\* cap is not at least 1, earlier versions accept any cap; the version is not
\* fixed by the repository, so both are admitted
QueueCtorThrows(concurrency) == IF concurrency >= 1 THEN {FALSE} ELSE {TRUE, FALSE}

\* push with the comparison off by one
QPush_OffByOne(q, item) ==
  IF q.running > q.concurrency
  THEN [q EXCEPT !.waiting = Append(@, item)]
  ELSE [q EXCEPT !.running = @ + 1]

\* push that starts every task at once
QPush_IgnoresCap(q, item) == [q EXCEPT !.running = @ + 1]

\* push: the task waits when the cap is reached, otherwise it starts at once
QPush(q, item) ==
  IF q.running >= q.concurrency
  THEN [q EXCEPT !.waiting = Append(@, item)]
  ELSE [q EXCEPT !.running = @ + 1]

\* release, run when a task has settled: the next waiting task takes the slot,
\* otherwise the slot is given back
QRelease(q) ==
  IF q.waiting # <<>> /\ q.running <= q.concurrency
  THEN [q EXCEPT !.waiting = Tail(@)]
  ELSE [q EXCEPT !.running = @ - 1]

\* drain() called by every release
QDrainFires_OnEveryRelease(q, r) == TRUE

\* release calls drain() when it gave back the last slot (r is the queue after
\* the release of queue q)
QDrainFires(q, r) == Len(r.waiting) = Len(q.waiting) /\ r.running = 0

QLength(q) == Len(q.waiting)

\* a queue that never reports idle: drained() waits for a drain even when no
\* task was ever pushed
QIdle_Never(q) == FALSE

\* idle that looks at the waiting tasks only
QIdle_IgnoresRunning(q) == QLength(q) = 0

\* idle(): nothing running, nothing waiting; drained() resolves at once on an
\* idle queue and otherwise when drain fires
QIdle(q) == q.running = 0 /\ QLength(q) = 0

\* ---------------------------------------------------------------- state
VARIABLES
  options,            \* the options object: delete, prefix, concurrency
  tree,               \* the entries of the root directory
  pc,                 \* position of the main coroutine (s3SpaUpload and callees)
  proc,               \* "alive", or "crashed" by an unhandled rejection
  rejectionMode,      \* what the runtime does with an unhandled rejection: "throw"
                      \* or "warn", fixed for the process; "unobserved" until the
                      \* first unhandled rejection is processed
  filePathsToUpload,  \* walkDirectory: the files found
  pushed,             \* walkDirectory: number of files pushed by the loop
  awaiting,           \* the job whose promise p the loop awaits, 0 if none
  q,                  \* walkDirectory: the upload queue
  jobs,               \* upload job of each file: status and put attempts
  uploadedS3Keys,     \* walkDirectory: keys pushed by the worker
  s3client,           \* region of the module-level _s3client
  endpoint,           \* the endpoint named by the bucket's PermanentRedirect
  unhandled,          \* a rejected promise without handler awaits processing
  listReqs,           \* removeOldFiles: list requests issued so far
  listed,             \* keys returned by the listing so far
  page,               \* removeOldFiles: the page being processed, its "more" flag
  dq,                 \* removeOldFiles: the delete queue
  dels,               \* delete jobs in submission order: key, status
  delClient,          \* removeOldFiles: the client it was called with
  deleted,            \* removeOldFiles: the counter
  faults,             \* failed I/O results delivered so far
  firstFailed,        \* the upload job that failed first in time, 0 before
  rejected,           \* the upload job whose error walkDirectory threw, 0 if none
  summary,            \* the summary printed, NoSummary before
  fn                  \* the pure functions applied to an input: input, results

vars == << options, tree, pc, proc, rejectionMode, filePathsToUpload, pushed,
           awaiting, q, jobs, uploadedS3Keys, s3client, endpoint, unhandled,
           listReqs, listed, page, dq, dels, deleted, faults, summary, fn,
           delClient, firstFailed, rejected >>

uploadVars == << filePathsToUpload, pushed, awaiting, q, jobs, uploadedS3Keys,
                 firstFailed, rejected >>
deleteVars == << listReqs, listed, page, dq, dels, deleted, delClient >>
envVars == << options, tree >>

NoSummary == [printed |-> FALSE, uploaded |-> 0, deleted |-> 0]
NoPage == [keys |-> <<>>, more |-> FALSE]

\* keys a listing of the bucket can return, for the normalized prefix: the key
\* of a.js of this run, a stale key under the prefix, a key that shares only the
\* first character with the prefix "m/"
BucketKeys(prefix) ==
  { prefix \o <<"a", ".", "j", "s">>,
    prefix \o <<"o", "l", "d">>,
    <<"m", "x">> }

NumBucketKeys == Cardinality(BucketKeys(<<>>))

\* positions where the main coroutine can run without waiting for I/O
MainRunnable == pc \in {"start", "loop", "uploaded", "page", "drainedDel", "summary"}

\* an I/O result can be delivered: the JavaScript thread has nothing left to run
IoReady == proc = "alive" /\ ~MainRunnable /\ ~unhandled

\* no function is being applied
FnIdle == [stage |-> "idle"]

\* the state of a process before s3SpaUpload is called
BeforeRun ==
  /\ pc = "start"
  /\ proc = "alive"
  /\ filePathsToUpload = <<>>
  /\ pushed = 0
  /\ awaiting = 0
  /\ q = NewQueue(0)
  /\ jobs = <<>>
  /\ uploadedS3Keys = <<>>
  /\ s3client = Undefined
  /\ unhandled = FALSE
  /\ firstFailed = 0
  /\ rejected = 0
  /\ delClient = Undefined
  /\ listReqs = 0
  /\ listed = {}
  /\ page = NoPage
  /\ dq = NewQueue(0)
  /\ dels = <<>>
  /\ deleted = 0
  /\ faults = 0
  /\ summary = NoSummary

\* a process about to call s3SpaUpload with some options on some tree
ProcessInit ==
  /\ options \in [delete : BOOLEAN, prefix : PrefixOptions,
                  concurrency : (1..MaxN) \cup InvalidCaps \cup {UnsetConcurrency}]
  /\ tree \in Trees
  /\ rejectionMode = "unobserved"
  /\ endpoint = NoEndpoint
  /\ BeforeRun

Init == ProcessInit /\ fn = FnIdle

\* --------------------------------------------------------- upload phase
\* a first put sent with the client that s3SpaUpload created
FirstAttempt_InitialClient(filePath) ==
  << [params |-> PutParams(filePath, RootDir, options.prefix),
      region |-> EnvRegion, result |-> "pending"] >>

\* the first put of a job whose worker starts now: params are built and sent
\* with the current _s3client
FirstAttempt(filePath) ==
  << [params |-> PutParams(filePath, RootDir, options.prefix),
      region |-> s3client, result |-> "pending"] >>

\* s3SpaUpload up to the upload loop of walkDirectory
Start ==
  /\ pc = "start" /\ proc = "alive"
  /\ options' = [options EXCEPT
                   !.concurrency = IF @ = UnsetConcurrency THEN DefaultConcurrency ELSE @,
                   !.prefix = NormalizePrefix(@)]
  /\ s3client' = EnvRegion
  /\ filePathsToUpload' = IF WalkThrows(tree) THEN <<>>
                          ELSE buildFileList(RootDir, tree, <<>>)
  /\ jobs' = [k \in 1..Len(filePathsToUpload') |-> [st |-> "new", att |-> <<>>]]
  /\ \E thrown \in QueueCtorThrows(options'.concurrency) :
       IF WalkThrows(tree) \/ thrown
       THEN q' = q /\ pc' = "failed"
       ELSE q' = NewQueue(options'.concurrency) /\ pc' = "loop"
  /\ UNCHANGED << fn, tree, proc, rejectionMode, pushed, awaiting, uploadedS3Keys,
                  endpoint, unhandled, faults, summary, firstFailed, rejected >>
  /\ UNCHANGED deleteVars

\* a loop that never waits for the job it has pushed
MustAwait_Never(queue) == FALSE

\* if (q.length() > 0) await p
MustAwait(queue) == QLength(queue) > 0

\* one iteration of the loop: push the next file, await it if it had to wait
PushNext ==
  /\ pc = "loop" /\ proc = "alive"
  /\ pushed < Len(filePathsToUpload)
  /\ LET k == pushed + 1
         r == QPush(q, k)
         started == r.running > q.running
     IN /\ q' = r
        /\ jobs' = [jobs EXCEPT ![k] =
                      IF started
                      THEN [st |-> "running", att |-> FirstAttempt(filePathsToUpload[k])]
                      ELSE [st |-> "queued", att |-> <<>>]]
        /\ pushed' = k
        /\ IF MustAwait(r)
           THEN pc' = "awaitP" /\ awaiting' = k
           ELSE pc' = "loop" /\ awaiting' = 0
  /\ UNCHANGED << filePathsToUpload, uploadedS3Keys, s3client, endpoint, unhandled,
                  proc, faults, summary, firstFailed, rejected >>
  /\ UNCHANGED envVars /\ UNCHANGED fn /\ UNCHANGED rejectionMode /\ UNCHANGED deleteVars

\* after the loop: await q.drained()
AwaitUploadDrained ==
  /\ pc = "loop" /\ proc = "alive"
  /\ pushed = Len(filePathsToUpload)
  /\ pc' = IF QIdle(q) THEN "uploaded" ELSE "awaitDrainedUp"
  /\ UNCHANGED << proc, s3client, endpoint, unhandled, faults, summary >>
  /\ UNCHANGED uploadVars /\ UNCHANGED envVars /\ UNCHANGED fn /\ UNCHANGED rejectionMode /\ UNCHANGED deleteVars

\* a worker that pushes the key whether or not the upload succeeded
WorkerThen_PushesAlways(uploadedKeys, key, ok) == Append(uploadedKeys, key)

\* worker: s3uploader(filePath).then((key) => uploadedS3Keys.push(key)); the
\* callback runs only when the upload promise is fulfilled
WorkerThen(uploadedKeys, key, ok) ==
  IF ok THEN Append(uploadedKeys, key) ELSE uploadedKeys

\* the worker promise of job k settles: push the key, settle p, release the slot
\* (which may start the next waiting job or fire drain), resume the main
\* coroutine if it awaits this job or the drain
SettleJob(k, att, ok) ==
  LET r == QRelease(q)
      nxt == IF Len(r.waiting) < Len(q.waiting) THEN Head(q.waiting) ELSE 0
  IN /\ q' = r
     /\ jobs' = [j \in DOMAIN jobs |->
                   IF j = k THEN [st |-> IF ok THEN "ok" ELSE "failed", att |-> att]
                   ELSE IF j = nxt
                        THEN [st |-> "running", att |-> FirstAttempt(filePathsToUpload[j])]
                        ELSE jobs[j]]
     /\ uploadedS3Keys' = WorkerThen(uploadedS3Keys, att[1].params.Key, ok)
     /\ firstFailed' = IF ~ok /\ firstFailed = 0 THEN k ELSE firstFailed
     /\ IF awaiting = k
        THEN /\ awaiting' = 0
             /\ pc' = IF ok THEN "loop" ELSE "failed"
             /\ rejected' = IF ok THEN rejected ELSE k
             /\ unhandled' = unhandled
        ELSE /\ awaiting' = awaiting
             /\ pc' = IF pc = "awaitDrainedUp" /\ QDrainFires(q, r) THEN "uploaded" ELSE pc
             /\ rejected' = rejected
             /\ unhandled' = (unhandled \/ ~ok)

\* the result of a put arrives
PutSettles(k, code) ==
  /\ IoReady
  /\ k \in DOMAIN jobs /\ jobs[k].st = "running"
  /\ code # "ok" => faults < MaxFaults
  /\ faults' = IF code = "ok" THEN faults ELSE faults + 1
  /\ LET n == Len(jobs[k].att)
         done == [jobs[k].att EXCEPT ![n].result = code]
     IN /\ jobs[k].att[n].result = "pending"
        /\ IF code = "ok"
           THEN SettleJob(k, done, TRUE) /\ UNCHANGED << s3client, endpoint >>
           ELSE IF ShouldRetry(n, code)
           THEN \E ep \in (IF endpoint = NoEndpoint THEN Endpoints ELSE {endpoint}) :
                \E thrown \in ClientCtorThrows(NewClientRegion(ep)) :
                  /\ endpoint' = ep
                  /\ IF thrown
                     THEN SettleJob(k, done, FALSE) /\ UNCHANGED s3client
                     ELSE /\ s3client' = NewClientRegion(ep)
                          /\ jobs' = [jobs EXCEPT ![k].att =
                                        Append(done, [params |-> done[n].params,
                                                      region |-> NewClientRegion(ep),
                                                      result |-> "pending"])]
                          /\ UNCHANGED << q, uploadedS3Keys, awaiting, pc, unhandled,
                                          firstFailed, rejected >>
           ELSE SettleJob(k, done, FALSE) /\ UNCHANGED << s3client, endpoint >>
  /\ UNCHANGED << filePathsToUpload, pushed, proc, summary >>
  /\ UNCHANGED envVars /\ UNCHANGED fn /\ UNCHANGED rejectionMode /\ UNCHANGED deleteVars

\* the runtime processes a rejection that has no handler
ProcessRejections ==
  /\ proc = "alive" /\ unhandled /\ ~MainRunnable
  /\ rejectionMode' \in (IF rejectionMode = "unobserved" THEN {"throw", "warn"}
                          ELSE {rejectionMode})
  /\ unhandled' = FALSE
  /\ proc' = IF rejectionMode' = "throw" THEN "crashed" ELSE "alive"
  /\ UNCHANGED << pc, s3client, endpoint, faults, summary >>
  /\ UNCHANGED uploadVars /\ UNCHANGED envVars /\ UNCHANGED fn /\ UNCHANGED deleteVars

\* ------------------------------------------------- reconciliation, summary
\* reconciliation run for every upload
ShouldReconcile_Always(opts) == TRUE

\* if (options.delete)
ShouldReconcile(opts) == opts.delete

\* removeOldFiles called with the client the run started with
ReconcileClient_Initial(current) == EnvRegion

\* removeOldFiles(_s3client, ...): the variable is read when the call is made
ReconcileClient(current) == current

\* walkDirectory has returned: removeOldFiles requests the first page, or the
\* summary is next
AfterUpload ==
  /\ pc = "uploaded" /\ proc = "alive"
  /\ IF ShouldReconcile(options)
     THEN /\ dq' = NewQueue(options.concurrency)
          /\ delClient' = ReconcileClient(s3client)
          /\ listReqs' = listReqs + 1
          /\ pc' = "awaitList"
     ELSE /\ pc' = "summary"
          /\ UNCHANGED << dq, listReqs, delClient >>
  /\ UNCHANGED << proc, s3client, endpoint, unhandled, faults, summary, listed, page,
                  dels, deleted >>
  /\ UNCHANGED uploadVars /\ UNCHANGED envVars /\ UNCHANGED fn /\ UNCHANGED rejectionMode

\* sequences without repetition, of length at most n, over the set S
RECURSIVE SeqsUpTo(_, _)
SeqsUpTo(S, n) ==
  IF n = 0 THEN { <<>> }
  ELSE { <<>> } \cup UNION { { <<x>> \o t : t \in SeqsUpTo(S \ {x}, n - 1) } : x \in S }

\* a list request settles: it fails, or it yields a page of keys not listed yet
ListSettles ==
  /\ IoReady /\ pc = "awaitList"
  /\ \/ /\ faults < MaxFaults
        /\ faults' = faults + 1
        /\ pc' = "failed"
        /\ UNCHANGED << listed, page >>
     \/ \E keys \in SeqsUpTo(BucketKeys(options.prefix) \ listed, MaxPageLen) :
        \E more \in (IF listReqs < MaxPages THEN BOOLEAN ELSE {FALSE}) :
          /\ page' = [keys |-> keys, more |-> more]
          /\ listed' = listed \cup {keys[x] : x \in 1..Len(keys)}
          \* a truncated page holds keys and leaves keys for the next page
          /\ more => (keys # <<>> /\ BucketKeys(options.prefix) \ listed' # {})
          /\ pc' = "page"
          /\ UNCHANGED faults
  /\ UNCHANGED << proc, s3client, endpoint, unhandled, summary, listReqs, dq, dels, deleted,
                  delClient >>
  /\ UNCHANGED uploadVars /\ UNCHANGED envVars /\ UNCHANGED fn /\ UNCHANGED rejectionMode

\* candidate test without the look-up in the uploaded keys
IsDeletionCandidate_NoKeepCheck(key, prefix, uploadedKeys) == StartsWith(key, prefix)

\* candidate test without the prefix test
IsDeletionCandidate_NoPrefixCheck(key, prefix, uploadedKeys) ==
  \A x \in 1..Len(uploadedKeys) : uploadedKeys[x] # key

\* is the listed key deleted?  (x.includes(y) on the array of uploaded keys)
IsDeletionCandidate(key, prefix, uploadedKeys) ==
  /\ StartsWith(key, prefix)
  /\ \A x \in 1..Len(uploadedKeys) : uploadedKeys[x] # key

\* the inner loop over one page: push a delete job for each candidate
RECURSIVE SubmitPage(_, _)
SubmitPage(keys, st) ==
  IF keys = <<>> THEN st
  ELSE IF IsDeletionCandidate(Head(keys), options.prefix, uploadedS3Keys)
       THEN LET r == QPush(st.dq, Len(st.dels) + 1)
                started == r.running > st.dq.running
            IN SubmitPage(Tail(keys),
                 [dq |-> r,
                  dels |-> Append(st.dels,
                             [key |-> Head(keys),
                              st |-> IF started THEN "running" ELSE "queued"])])
       ELSE SubmitPage(Tail(keys), st)

\* process the page received, then await q.drained()
ProcessPage ==
  /\ pc = "page" /\ proc = "alive"
  /\ LET st == SubmitPage(page.keys, [dq |-> dq, dels |-> dels])
     IN /\ dq' = st.dq
        /\ dels' = st.dels
        /\ pc' = IF QIdle(st.dq) THEN "drainedDel" ELSE "awaitDrainedDel"
        \* the keys of the page are not used again; its "more" flag is kept
        /\ page' = [page EXCEPT !.keys = <<>>]
  /\ UNCHANGED << proc, s3client, endpoint, unhandled, faults, summary, listReqs, listed,
                  deleted, delClient >>
  /\ UNCHANGED uploadVars /\ UNCHANGED envVars /\ UNCHANGED fn /\ UNCHANGED rejectionMode

\* a counter that counts every settled delete
DeleteThen_CountsAlways(count, ok) == count + 1

\* .then(() => { deleted++ }): runs only when the delete is acknowledged
DeleteThen(count, ok) == IF ok THEN count + 1 ELSE count

\* the result of a delete arrives
DeleteSettles(d, ok) ==
  /\ IoReady
  /\ d \in DOMAIN dels /\ dels[d].st = "running"
  /\ ~ok => faults < MaxFaults
  /\ faults' = IF ok THEN faults ELSE faults + 1
  /\ LET r == QRelease(dq)
         nxt == IF Len(r.waiting) < Len(dq.waiting) THEN Head(dq.waiting) ELSE 0
     IN /\ dq' = r
        /\ dels' = [j \in DOMAIN dels |->
                      IF j = d THEN [dels[j] EXCEPT !.st = IF ok THEN "ok" ELSE "failed"]
                      ELSE IF j = nxt THEN [dels[j] EXCEPT !.st = "running"]
                      ELSE dels[j]]
        /\ deleted' = DeleteThen(deleted, ok)
        /\ unhandled' = (unhandled \/ ~ok)
        /\ pc' = IF pc = "awaitDrainedDel" /\ QDrainFires(dq, r) THEN "drainedDel" ELSE pc
  /\ UNCHANGED << proc, s3client, endpoint, summary, listReqs, listed, page, delClient >>
  /\ UNCHANGED uploadVars /\ UNCHANGED envVars /\ UNCHANGED fn /\ UNCHANGED rejectionMode

\* the queue has drained: request the next page, or return the counter
NextPage ==
  /\ pc = "drainedDel" /\ proc = "alive"
  /\ IF page.more
     THEN /\ listReqs' = listReqs + 1
          /\ pc' = "awaitList"
     ELSE /\ pc' = "summary"
          /\ UNCHANGED listReqs
  /\ UNCHANGED << proc, s3client, endpoint, unhandled, faults, summary, listed, page, dq,
                  dels, deleted, delClient >>
  /\ UNCHANGED uploadVars /\ UNCHANGED envVars /\ UNCHANGED fn /\ UNCHANGED rejectionMode

\* the summary lines
Summary ==
  /\ pc = "summary" /\ proc = "alive"
  /\ summary' = [printed |-> TRUE, uploaded |-> Len(uploadedS3Keys),
                 deleted |-> IF options.delete THEN deleted ELSE 0]
  /\ pc' = "done"
  /\ UNCHANGED << proc, s3client, endpoint, unhandled, faults >>
  /\ UNCHANGED uploadVars /\ UNCHANGED envVars /\ UNCHANGED fn /\ UNCHANGED rejectionMode /\ UNCHANGED deleteVars

PutResults == {"ok", "PermanentRedirect", "AccessDenied"}

Next ==
  \/ Start
  \/ PushNext
  \/ AwaitUploadDrained
  \/ \E k \in 1..MaxFiles + 1 : \E code \in PutResults : PutSettles(k, code)
  \/ ProcessRejections
  \/ AfterUpload
  \/ ListSettles
  \/ ProcessPage
  \/ \E d \in 1..NumBucketKeys : \E ok \in BOOLEAN : DeleteSettles(d, ok)
  \/ NextPage
  \/ Summary

Spec == Init /\ [][Next]_vars

\* runs with a cap of at least 1 on a bucket behind the legacy endpoint, in which
\* the event loop runs whatever can run and every request sent settles
LiveInit ==
  /\ options \in [delete : BOOLEAN, prefix : {Undefined}, concurrency : 1..MaxN]
  /\ tree \in Trees
  /\ rejectionMode = "unobserved"
  /\ endpoint = EpLegacy
  /\ BeforeRun
  /\ fn = FnIdle

LiveSpec == LiveInit /\ [][Next]_vars /\ WF_vars(Next)

\* ------------------------------------------------- runs without reconciliation
\* the upload phase alone, on trees of one file more than the runs above
UploadTrees ==
  {t \in ReadableTrees : Len(buildFileList(RootDir, t, <<>>)) <= MaxFiles + 1}

UploadInit ==
  /\ options \in [delete : {FALSE}, prefix : {Undefined},
                  concurrency : (1..MaxN) \cup {UnsetConcurrency}]
  /\ tree \in UploadTrees
  /\ rejectionMode = "unobserved"
  /\ endpoint = NoEndpoint
  /\ BeforeRun
  /\ fn = FnIdle

UploadNext ==
  \/ Start
  \/ PushNext
  \/ AwaitUploadDrained
  \/ \E k \in 1..MaxFiles + 1 : \E code \in PutResults : PutSettles(k, code)
  \/ ProcessRejections
  \/ AfterUpload
  \/ Summary

UploadSpec == UploadInit /\ [][UploadNext]_vars

\* ------------------------------------------- key, prefix, cache-control alone
\* s3SpaUpload's derivation of the put params of one file, and its prefix
\* normalization, applied to inputs beyond those of the runs above
processVars == << options, tree, pc, proc, rejectionMode, filePathsToUpload, pushed,
                  awaiting, q, jobs, uploadedS3Keys, s3client, endpoint, unhandled,
                  listReqs, listed, page, dq, dels, deleted, faults, summary,
                  delClient, firstFailed, rejected >>

Name404 == <<"4", "0", "4">>

\* resolved root directories; two of them hold a "+"
FnDirs ==
  { <<"/", "r">>, <<"/", "d", ".", "x">>, <<"/", "r", "+">>, <<"/", "a", "+", "b">> }

FnTrees == ReadableTrees \cup { << F(Name404) >> }

FnPrefixes ==
  { Undefined, <<>>, <<"m">>, <<"m", "/">>, <<"m", "/", "/">>, <<"/">>, <<"a", "/", "b">> }

\* mapping objects, as their properties in insertion order
FnMappings ==
  { DEFAULT_CACHE_CONTROL_MAPPING,
    << >>,
    << [glob |-> NameIndexHtml, cacheControl |-> "A"],
       [glob |-> <<"*", ".", "h", "t", "m", "l">>, cacheControl |-> "B"] >>,
    << [glob |-> <<"*", ".", "h", "t", "m", "l">>, cacheControl |-> "B"],
       [glob |-> NameIndexHtml, cacheControl |-> "A"] >>,
    << [glob |-> <<"*">>, cacheControl |-> "A"],
       [glob |-> Name404, cacheControl |-> "B"] >>,
    << [glob |-> <<"s", "/", "*", ".", "t", "x", "t">>, cacheControl |-> "A"] >>,
    << [glob |-> <<"/", "r", "/", "s", "/", "*", ".", "t", "x", "t">>,
        cacheControl |-> "A"] >> }

NoParams ==
  [Bucket |-> "", Key |-> <<>>, Body |-> <<>>, CacheControl |-> Absent,
   ContentType |-> Absent]

\* the root-relative paths of the regular files of a tree, at any depth
RECURSIVE RegularFiles(_, _)
RegularFiles(entries, base) ==
  IF entries = <<>> THEN {}
  ELSE LET e == Head(entries)
           here == IF e.kind = "file" THEN {base \o e.name}
                   ELSE RegularFiles(e.entries, base \o e.name \o <<"/">>)
       IN here \cup RegularFiles(Tail(entries), base)

\* a root directory, a file that the walk of a tree under it finds (with its
\* root-relative path), a prefix option and a mapping
FnInputs ==
  UNION { UNION { { [stage |-> "input", dir |-> d, filePath |-> Join(d, rel),
                     rel |-> rel, prefix |-> p, mapping |-> m,
                     norm |-> <<>>, renorm |-> <<>>, params |-> NoParams,
                     dir2 |-> <<>>, params2 |-> NoParams] :
                    p \in FnPrefixes, m \in FnMappings } :
                  rel \in { r \in RegularFiles(t, <<>>) :
                             Join(d, r) \in Range(buildFileList(d, t, <<>>)) } } :
          d \in FnDirs, t \in FnTrees }

FnInit ==
  /\ ProcessInit
  /\ options = [delete |-> FALSE, prefix |-> Undefined, concurrency |-> UnsetConcurrency]
  /\ tree = << >>
  /\ fn \in FnInputs

\* s3SpaUpload and uploadToS3 up to the put: normalize the prefix, strip the
\* root from the file path, build the params
FnUpload ==
  /\ fn.stage = "input"
  /\ LET prefix == NormalizePrefix(fn.prefix)
     IN fn' = [fn EXCEPT !.stage = "uploaded",
                         !.norm = prefix,
                         !.params = UploadParams(StripDir(fn.filePath, fn.dir),
                                                 fn.filePath, prefix, fn.mapping)]
  /\ UNCHANGED processVars

\* the same call for the same tree placed under another root directory
FnUploadElsewhere ==
  /\ fn.stage = "uploaded"
  /\ \E d \in FnDirs \ {fn.dir} :
       LET filePath == Join(d, fn.rel)
       IN fn' = [fn EXCEPT !.stage = "uploadedElsewhere",
                           !.dir2 = d,
                           !.params2 = UploadParams(StripDir(filePath, d), filePath,
                                                    fn.norm, fn.mapping)]
  /\ UNCHANGED processVars

\* the prefix normalization of s3SpaUpload, which writes options.prefix
FnNormalize ==
  /\ fn.stage = "input"
  /\ fn' = [fn EXCEPT !.stage = "normalized", !.norm = NormalizePrefix(fn.prefix)]
  /\ UNCHANGED processVars

\* s3SpaUpload called again with the same options object
FnNormalizeAgain ==
  /\ fn.stage = "normalized"
  /\ fn' = [fn EXCEPT !.stage = "normalizedAgain", !.renorm = NormalizePrefix(fn.norm)]
  /\ UNCHANGED processVars

FnNext == FnUpload \/ FnUploadElsewhere \/ FnNormalize \/ FnNormalizeAgain

FnSpec == FnInit /\ [][FnNext]_vars


\* ----------------------------------------------------------------- claims

Issued(d) == dels[d].st \in {"running", "ok", "failed"}
Settled(st) == st \in {"ok", "failed"}
RunningJobs == {k \in DOMAIN jobs : jobs[k].st = "running"}
RunningDeletes == {d \in DOMAIN dels : dels[d].st = "running"}
Retried(k) == Len(jobs[k].att) >= 2

\* C1: no delete is issued for a key of the uploaded key set, whatever the
\* listing returns, in whatever order and split into pages
C1_NeverDeletesUploadedKey ==
  \A d \in DOMAIN dels : Issued(d) => dels[d].key \notin Range(uploadedS3Keys)

\* C1 witness: two pages were listed, an uploaded key was among the listed keys
\* and a delete was issued for another key
C1_Witness ==
  /\ listReqs >= 2 /\ pc = "done"
  /\ \E key \in listed : key \in Range(uploadedS3Keys)
  /\ \E d \in DOMAIN dels : Issued(d)

\* C2: the upload jobs started and not yet settled, a job in its redirect retry
\* included, never exceed the concurrency cap
C2_UploadsWithinCap ==
  pc # "start" =>
    /\ Cardinality(RunningJobs) <= options.concurrency
    /\ Cardinality({k \in DOMAIN jobs :
                      \E n \in DOMAIN jobs[k].att : jobs[k].att[n].result = "pending"})
         <= options.concurrency

\* C2 witness: the cap is reached, one running job is in its redirect retry and
\* another job waits in the queue
C2_Witness ==
  /\ Cardinality(RunningJobs) = options.concurrency
  /\ \E k \in RunningJobs : Retried(k)
  /\ \E k \in DOMAIN jobs : jobs[k].st = "queued"

\* C3: if the put of a file fails without being recovered by the retry, the run
\* does not complete successfully and the summary is not printed
C3_FailedPutEndsInError ==
  (\E k \in DOMAIN jobs : jobs[k].st = "failed") => (~summary.printed /\ pc # "done")

\* C4: no list request and no delete is issued while a put is outstanding or a
\* file has not been submitted yet
C4_NoReconcileDuringUpload ==
  (listReqs > 0 \/ \E d \in DOMAIN dels : Issued(d))
    => /\ pushed = Len(filePathsToUpload)
       /\ \A k \in DOMAIN jobs : Settled(jobs[k].st)

\* C4 witness: a run of at least two files, one of them retried after a
\* redirect, has reached the listing and issued a delete
C4_Witness ==
  /\ listReqs > 0 /\ Len(filePathsToUpload) >= 2
  /\ \E k \in DOMAIN jobs : Retried(k)
  /\ \E d \in DOMAIN dels : Issued(d)

\* C5: with a non-empty prefix every key for which a delete is issued starts
\* with the normalized prefix
C5_DeletesOnlyUnderPrefix ==
  (pc # "start" /\ options.prefix # <<>>)
    => \A d \in DOMAIN dels :
         /\ StartsWith(dels[d].key, options.prefix)
         /\ EndsWith(options.prefix, <<"/">>)

\* C5 witness: with prefix "m/" the listing returned the key "mx" outside the
\* prefix and a delete was issued for a key under the prefix
C5_Witness ==
  /\ pc # "start" /\ options.prefix = <<"m", "/">>
  /\ <<"m", "x">> \in listed
  /\ \E d \in DOMAIN dels : Issued(d)
  /\ pc = "done"

\* C6: while a list request is outstanding no delete is running or waiting
C6_NextPageAfterDrain ==
  pc = "awaitList" => \A d \in DOMAIN dels : Settled(dels[d].st)

\* C6 witness: the second page is requested after two deletes were submitted
\* for the first page
C6_Witness ==
  pc = "awaitList" /\ listReqs >= 2 /\ Len(dels) >= 2

\* C7: the deletes started and not yet settled never exceed the concurrency cap
C7_DeletesWithinCap ==
  /\ pc # "start" => Cardinality(RunningDeletes) <= options.concurrency
  /\ listReqs > 0 => dq.concurrency = q.concurrency

\* C7 witness: the cap is reached by running deletes and a further delete of the
\* same page waits in the queue
C7_Witness ==
  /\ Cardinality(RunningDeletes) = options.concurrency
  /\ \E d \in DOMAIN dels : dels[d].st = "queued"

\* C8: at most two put attempts per file; a second attempt exactly when the
\* first failed with PermanentRedirect, with the same params; a failed second
\* attempt and a first failure of another kind fail the job without retry
C8_PutRetryContract ==
  \A k \in DOMAIN jobs :
    LET a == jobs[k].att IN
    /\ Len(a) <= 2
    /\ (Len(a) >= 1 => (Len(a) = 2 <=> a[1].result = "PermanentRedirect"))
    /\ (Len(a) = 2 => a[2].params = a[1].params)
    /\ (Len(a) = 2 /\ a[2].result \notin {"pending", "ok"} => jobs[k].st = "failed")
    /\ (Len(a) >= 1 /\ a[1].result \notin {"pending", "ok", "PermanentRedirect"}
          => jobs[k].st = "failed" /\ Len(a) = 1)

\* C9: a retry that succeeds after a PermanentRedirect naming
\* bucket.s3-eu-west-1 or bucket.s3.eu-west-1 was sent with a client bound to
\* eu-west-1, the key is in the uploaded key set, and while no job has failed
\* the upload phase has not failed (the walk succeeded and the queue was made
\* with a cap of at least 1)
C9_RedirectRetryRegion ==
  /\ \A k \in DOMAIN jobs :
       (Retried(k) /\ jobs[k].att[2].result = "ok" /\ endpoint \in {EpDash, EpDot})
         => /\ jobs[k].att[2].region = EuWest1
            /\ jobs[k].st = "ok"
            /\ jobs[k].att[1].params.Key \in Range(uploadedS3Keys)
  /\ ((\A k \in DOMAIN jobs : jobs[k].st # "failed") /\ listReqs = 0
        /\ (pc # "start" => options.concurrency >= 1)
        /\ tree \notin UnreadableTrees)
       => (pc # "failed" /\ proc = "alive" /\ ~unhandled)

\* C9 witness: a run whose only failures were redirects naming
\* bucket.s3.eu-west-1 has printed the summary
C9_Witness ==
  /\ endpoint = EpDot /\ pc = "done"
  /\ \E k \in DOMAIN jobs : Retried(k) /\ jobs[k].att[2].result = "ok"

\* C10: after a PermanentRedirect naming the legacy endpoint
\* bucket.s3.amazonaws.com the retry is sent with a client bound to us-east-1
C10_LegacyRedirectUsesUsEast1 ==
  \A k \in DOMAIN jobs :
    (Len(jobs[k].att) >= 1 /\ jobs[k].att[1].result = "PermanentRedirect"
       /\ endpoint = EpLegacy)
      => (Retried(k) /\ jobs[k].att[2].region = UsEast1)

\* C11: once the catch handler has replaced _s3client, the handle keeps the
\* region of that reconfiguration for the rest of the run (eu-west-1 for the
\* endpoints that name it), and every job whose worker starts afterwards sends
\* its first put with that region
C11_ReconfigurationPersists ==
  [][ /\ (pc # "start" /\ s3client' # s3client)
          => /\ s3client' = NewClientRegion(endpoint')
             /\ (endpoint' \in {EpDash, EpDot} => s3client' = EuWest1)
      /\ (pc # "start" /\ s3client # EnvRegion)
          => /\ s3client' = s3client
             /\ \A k \in DOMAIN jobs :
                  (jobs[k].att = <<>> /\ jobs'[k].att # <<>>)
                    => jobs'[k].att[1].region = s3client ]_vars

\* C11 witness: the handle is bound to eu-west-1 by a retry, and a job that had
\* waited in the queue has sent its first put with eu-west-1 and succeeded
C11_Witness ==
  /\ s3client = EuWest1
  /\ \E k \in DOMAIN jobs : Retried(k)
  /\ \E k \in DOMAIN jobs :
       Len(jobs[k].att) = 1 /\ jobs[k].att[1].region = EuWest1 /\ jobs[k].st = "ok"

\* the region that a redirect to the endpoint names: the one in the host name,
\* us-east-1 for the legacy endpoint
RedirectTargetRegion(ep) == IF ep = EpLegacy THEN UsEast1 ELSE EuWest1

\* C12: puts in flight on the uncorrected client that all fail with
\* PermanentRedirect lead to one reconfiguration of the handle, the other
\* uploads reuse the corrected client, and when the upload phase ends the handle
\* is bound to the region the redirect names
C12_ReconfigurationsDoNotRace ==
  /\ Reconfigurations(jobs) <= 1
  /\ (pc = "uploaded" /\ endpoint # NoEndpoint)
       => s3client = RedirectTargetRegion(endpoint)

\* the key of the put of file k: the one of its params once the job has
\* started, the one it will get before
KeyOf(k) ==
  IF jobs[k].att # <<>> THEN jobs[k].att[1].params.Key
  ELSE options.prefix \o StripDir(filePathsToUpload[k], RootDir)

\* C13: every member of uploadedS3Keys is the key of a job whose last put was
\* acknowledged as successful, no key is a member twice, and the key of a job
\* that failed, is in flight or has not started is not a member
C13_UploadedKeysAreAcknowledged ==
  /\ \A i \in DOMAIN uploadedS3Keys :
       \E k \in DOMAIN jobs :
         /\ jobs[k].st = "ok"
         /\ jobs[k].att[Len(jobs[k].att)].result = "ok"
         /\ KeyOf(k) = uploadedS3Keys[i]
  /\ \A i, j \in DOMAIN uploadedS3Keys :
       uploadedS3Keys[i] = uploadedS3Keys[j] => i = j
  /\ \A k \in DOMAIN jobs :
       jobs[k].st # "ok" => KeyOf(k) \notin Range(uploadedS3Keys)

\* C13 witness: one job succeeded after a redirect retry and its key is the
\* only member, another job failed
C13_Witness ==
  /\ Len(uploadedS3Keys) = 1
  /\ \E k \in DOMAIN jobs : jobs[k].st = "ok" /\ Retried(k)
  /\ \E k \in DOMAIN jobs : jobs[k].st = "failed"

\* the run has completed successfully: the summary is printed and the process
\* ends without a pending or fatal rejection
CompletedSuccessfully == pc = "done" /\ proc = "alive" /\ ~unhandled

\* C14: when a run completes successfully there is one upload job per regular
\* file of the tree, each has sent its put, the uploaded key set is the set of
\* the keys of these files and the summary counts them
C14_EveryFileUploadedOnce ==
  CompletedSuccessfully =>
    LET files == RegularFiles(tree, <<>>) IN
    /\ Len(jobs) = Cardinality(files)
    /\ {StripDir(filePathsToUpload[k], RootDir) : k \in DOMAIN jobs} = files
    /\ \A k \in DOMAIN jobs : Len(jobs[k].att) >= 1
    /\ Range(uploadedS3Keys) = {options.prefix \o f : f \in files}
    /\ Len(uploadedS3Keys) = Cardinality(files)
    /\ summary.uploaded = Cardinality(files)

\* listed keys under the prefix that are not in the uploaded key set
ListedStale ==
  {key \in listed : StartsWith(key, options.prefix) /\ key \notin Range(uploadedS3Keys)}

\* C15: when a run with the delete option completes successfully every listed
\* key under the prefix that was not uploaded has been deleted, no uploaded key
\* has been deleted, and the summary counts the listed keys under the prefix
\* that were not uploaded
C15_BucketEqualsUploadedSet ==
  (CompletedSuccessfully /\ options.delete) =>
    /\ \A key \in ListedStale :
         \E d \in DOMAIN dels : dels[d].key = key /\ dels[d].st = "ok"
    /\ \A d \in DOMAIN dels : dels[d].key \notin Range(uploadedS3Keys)
    /\ summary.deleted = Cardinality(ListedStale)

\* C16: without the delete option no list request and no delete is issued, so
\* the puts are the only requests of the run that change the bucket
C16_NoReconcileWithoutDelete ==
  ~options.delete =>
    /\ listReqs = 0 /\ listed = {}
    /\ dels = <<>> /\ deleted = 0
    /\ pc \notin {"awaitList", "page", "awaitDrainedDel", "drainedDel"}

\* C16 witness: a run without the delete option has uploaded a file and printed
\* the summary
C16_Witness ==
  ~options.delete /\ pc = "done" /\ Len(uploadedS3Keys) >= 1

\* C17: the key of the put of the file at <root>/<rel> is the normalized prefix
\* followed by <rel>, for every root, nesting depth and prefix option
C17_KeyIsPrefixPlusRelativePath ==
  fn.stage = "uploaded" => fn.params.Key = fn.norm \o fn.rel

\* number of separators that s ends with
RECURSIVE TrailingSeps(_)
TrailingSeps(s) ==
  IF s = <<>> \/ s[Len(s)] # "/" THEN 0
  ELSE 1 + TrailingSeps(SubSeq(s, 1, Len(s) - 1))

\* s without the separators it ends with
Stem(s) == SubSeq(s, 1, Len(s) - TrailingSeps(s))

Normalized == fn.stage \in {"normalized", "normalizedAgain"}

\* C18 as stated: an unset or empty prefix becomes the empty string, every
\* other prefix a string that ends with exactly one separator, and normalizing
\* the result again changes nothing
C18_ExactlyOneTrailingSeparator ==
  Normalized =>
    /\ (fn.prefix \in {Undefined, <<>>} => fn.norm = <<>>)
    /\ (fn.prefix \notin {Undefined, <<>>} => TrailingSeps(fn.norm) = 1)
    /\ (fn.stage = "normalizedAgain" => fn.renorm = fn.norm)

\* C18 amended: an unset or empty prefix becomes the empty string; every other
\* prefix keeps its characters and ends with a separator, one being added only
\* when the prefix does not end with one (the separators a prefix already ends
\* with are all kept); normalizing the result again changes nothing
C18_TrailingSeparatorEnsured ==
  Normalized =>
    /\ (fn.prefix \in {Undefined, <<>>} => fn.norm = <<>>)
    /\ (fn.prefix \notin {Undefined, <<>>} =>
          /\ Stem(fn.norm) = Stem(fn.prefix)
          /\ TrailingSeps(fn.norm) = Max({1, TrailingSeps(fn.prefix)}))
    /\ (fn.stage = "normalizedAgain" => fn.renorm = fn.norm)

\* C18 witness: the prefix "m//" was normalized twice and still ends with two
\* separators
C18_Witness ==
  /\ fn.stage = "normalizedAgain"
  /\ fn.prefix = <<"m", "/", "/">>
  /\ fn.renorm = <<"m", "/", "/">>

\* C19: the cache-control of the put is the value of the first pattern, in the
\* insertion order of the mapping, that matches the path, and absent when no
\* pattern matches
C19_FirstMatchInInsertionOrder ==
  fn.stage = "uploaded" =>
    fn.params.CacheControl = FirstMatchingEntry(fn.filePath, fn.mapping)

\* C20: s3SpaUpload called with a cap below 1 ends in an error without having
\* issued a put, a list request or a delete
C20_CoreRefusesCapBelowOne ==
  (pc # "start" /\ options.concurrency < 1) =>
    /\ pc = "failed"
    /\ \A k \in DOMAIN jobs : jobs[k].att = <<>>
    /\ listReqs = 0 /\ dels = <<>>

\* C21: the enumeration is all-or-nothing: when the root or a directory under
\* it cannot be read, the run ends in an error and no put, list request or
\* delete has been issued, also not for the files found before that directory
C21_WalkIsAllOrNothing ==
  (pc # "start" /\ tree \in UnreadableTrees) =>
    /\ pc = "failed"
    /\ filePathsToUpload = <<>> /\ pushed = 0
    /\ \A k \in DOMAIN jobs : jobs[k].att = <<>>
    /\ listReqs = 0 /\ dels = <<>>
    /\ ~summary.printed

\* a run on a tree that holds a file next to an unreadable directory has failed
C21_Witness ==
  /\ pc = "failed"
  /\ tree = << F(NameAJs), D(NameS, ReadError) >>
  /\ options.concurrency >= 1

\* C22: a failed delete ends the run in an error instead of a summary, and for
\* every key at most one delete is issued
C22_DeleteFailureSurfaces ==
  /\ (\E d \in DOMAIN dels : dels[d].st = "failed") =>
       (pc # "done" /\ ~summary.printed)
  /\ \A d, e \in DOMAIN dels : dels[d].key = dels[e].key => d = e

\* the run has ended: with the summary, with an error, or by the runtime
Terminated ==
  \/ pc = "done" /\ summary.printed
  \/ pc = "failed"
  \/ proc = "crashed"

\* C23: when every request settles, a run with a cap of at least 1 ends, with
\* the summary or with an error
C23_RunTerminates == <>Terminated

\* a run has ended with the summary after an upload phase whose last job was
\* awaited by the loop and a listing page without a deletion candidate
C23_Witness ==
  /\ pc = "done" /\ summary.printed
  /\ options.concurrency = 1 /\ Len(jobs) = 2
  /\ \A k \in DOMAIN jobs : jobs[k].st = "ok"
  /\ listed # {} /\ dels = <<>>

\* C24: the error with which the upload phase fails is that of the job that
\* failed first, and a failed job makes the upload phase fail
C24_FirstErrorPropagates ==
  /\ rejected # 0 => rejected = firstFailed
  /\ (firstFailed # 0 /\ pc \notin {"loop", "awaitP", "awaitDrainedUp"} /\ proc = "alive")
       => rejected # 0

\* C25: once an upload job has failed, no further file is submitted to the queue
C25_FailFast ==
  [][firstFailed # 0 => pushed' = pushed]_vars

\* C26: the counter of reconciliation equals the number of deletes acknowledged,
\* and so does the count of the summary
C26_DeletedCountsAcknowledged ==
  /\ deleted = Cardinality({d \in DOMAIN dels : dels[d].st = "ok"})
  /\ (summary.printed /\ options.delete) => summary.deleted = deleted

\* one delete was acknowledged and one failed
C26_Witness ==
  /\ \E d \in DOMAIN dels : dels[d].st = "ok"
  /\ \E d \in DOMAIN dels : dels[d].st = "failed"
  /\ deleted = 1

\* C27: the cache-control of a file is the same under every root directory, and
\* it is the value that the mapping gives for the root-relative path
C27_CacheControlIgnoresRoot ==
  fn.stage = "uploadedElsewhere" =>
    /\ fn.params2.CacheControl = fn.params.CacheControl
    /\ fn.params.CacheControl = getCacheControl(fn.rel, fn.mapping)

\* upload jobs submitted and not settled
Unsettled == {k \in DOMAIN jobs : jobs[k].st \in {"queued", "running"}}

\* C28: during the upload phase at most one submitted job waits in the queue,
\* and the submitted jobs that have not settled never exceed the cap plus one
C28_AtMostOneWaiting ==
  /\ QLength(q) <= 1
  /\ Cardinality({k \in DOMAIN jobs : jobs[k].st = "queued"}) <= 1
  /\ pc # "start" => Cardinality(Unsettled) <= options.concurrency + 1

\* the cap is in use, one job waits and a file is left to submit
C28_Witness ==
  /\ pc = "awaitP"
  /\ q.running = options.concurrency /\ QLength(q) = 1
  /\ pushed < Len(filePathsToUpload)

\* C29: in a run with the delete option in which a put failed, no delete is
\* issued
C29_NoDeleteAfterFailedPut ==
  (options.delete /\ \E k \in DOMAIN jobs : jobs[k].st = "failed") =>
    \A d \in DOMAIN dels : ~Issued(d)

\* C30: after a reconfiguration in the upload phase, the list requests and the
\* deletes of reconciliation are sent with the client in use at the end of the
\* upload phase, which is bound to the redirect region
C30_ReconcilesWithCorrectedClient ==
  (listReqs > 0 /\ Reconfigurations(jobs) > 0) =>
    /\ delClient = s3client
    /\ delClient = jobs[CHOOSE k \in DOMAIN jobs : Len(jobs[k].att) >= 2].att[2].region
    /\ endpoint \in {EpDash, EpDot} => delClient = EuWest1

\* a delete was issued by a reconciliation that follows a reconfiguration
C30_Witness ==
  /\ Reconfigurations(jobs) > 0
  /\ endpoint = EpDash
  /\ delClient = EuWest1
  /\ dels # <<>>

====
